---- MODULE Spec2Model ----
(***************************************************************************)
(* Keithley 2182 nanovoltmeter driver (slave/keithley/k2182.py).           *)
(*                                                                         *)
(* The driver is a catalogue of Command descriptors grouped in command     *)
(* layers (Initiate, Output, Sense, Trigger, Unit) under the K2182 facade, *)
(* plus the direct actions initiate(), triggering.signal(), abort(),       *)
(* fetch() and read().  Every access is one synchronous exchange with the  *)
(* injected connection.  The model keeps the connection's view (the        *)
(* sequence of commands it received) and the caller's view (the outcome of *)
(* the last two invocations).                                              *)
(*                                                                         *)
(* Wire text is modelled as TLA+ strings; numbers are exact decimals       *)
(* m * 10^e with a normalised mantissa.                                    *)
(***************************************************************************)
EXTENDS Integers, Sequences, FiniteSets, TLC

VARIABLES log, last, prev, nCalls, nOk

vars == <<log, last, prev, nCalls, nOk>>

(***************************************************************************)
(* Bounds of the model.                                                    *)
(***************************************************************************)
\* Number of invocations in one behaviour.
MaxCalls == 2

(***************************************************************************)
(* Text helpers.                                                           *)
(***************************************************************************)
Char(s, i) == SubSeq(s, i, i)

IsDigit(c) == c \in {"0", "1", "2", "3", "4", "5", "6", "7", "8", "9"}

DigitVal(c) ==
  CASE c = "0" -> 0 [] c = "1" -> 1 [] c = "2" -> 2 [] c = "3" -> 3
    [] c = "4" -> 4 [] c = "5" -> 5 [] c = "6" -> 6 [] c = "7" -> 7
    [] c = "8" -> 8 [] c = "9" -> 9

DigitChar(d) == Char("0123456789", d + 1)

\* Index just after the run of digits of s that starts at i.
RECURSIVE DigitsEnd(_, _)
DigitsEnd(s, i) ==
  IF i <= Len(s) /\ IsDigit(Char(s, i)) THEN DigitsEnd(s, i + 1) ELSE i

\* The number a string of digits denotes ("" denotes 0).
RECURSIVE NatOf(_)
NatOf(s) ==
  IF s = "" THEN 0
  ELSE 10 * NatOf(SubSeq(s, 1, Len(s) - 1)) + DigitVal(Char(s, Len(s)))

\* The decimal digits of a natural number.
RECURSIVE NatStr(_)
NatStr(n) ==
  IF n < 10 THEN DigitChar(n) ELSE NatStr(n \div 10) \o DigitChar(n % 10)

RECURSIVE Zeros(_)
Zeros(k) == IF k <= 0 THEN "" ELSE "0" \o Zeros(k - 1)

RECURSIVE LStrip(_)
LStrip(s) == IF s # "" /\ Char(s, 1) = " " THEN LStrip(Tail(s)) ELSE s

RECURSIVE RStrip(_)
RStrip(s) ==
  IF s # "" /\ Char(s, Len(s)) = " "
  THEN RStrip(SubSeq(s, 1, Len(s) - 1)) ELSE s

Strip(s) == RStrip(LStrip(s))

\* s without its trailing zeros.
RECURSIVE RStripZeros(_)
RStripZeros(s) ==
  IF s # "" /\ Char(s, Len(s)) = "0"
  THEN RStripZeros(SubSeq(s, 1, Len(s) - 1)) ELSE s

StartsWith(s, p) == Len(p) <= Len(s) /\ SubSeq(s, 1, Len(p)) = p

(***************************************************************************)
(* Values.  One record shape for every native value, so that values of     *)
(* different types can be compared: t is the type tag, b the boolean, m    *)
(* and e the decimal m * 10^e (e = 0 for an int), s the symbol.            *)
(***************************************************************************)
NoValue == [t |-> "none", b |-> FALSE, m |-> 0, e |-> 0, s |-> ""]
BoolV(x) == [t |-> "bool", b |-> x, m |-> 0, e |-> 0, s |-> ""]
IntV(n) == [t |-> "int", b |-> FALSE, m |-> n, e |-> 0, s |-> ""]
SymV(x) == [t |-> "sym", b |-> FALSE, m |-> 0, e |-> 0, s |-> x]

\* m * 10^e with the trailing zeros of m moved into e; zero is 0 * 10^0.
RECURSIVE NormME(_, _)
NormME(m, e) ==
  IF m = 0 THEN <<0, 0>>
  ELSE IF m % 10 = 0 THEN NormME(m \div 10, e + 1) ELSE <<m, e>>

FloatV(m, e) ==
  LET n == NormME(m, e)
  IN  [t |-> "float", b |-> FALSE, m |-> n[1], e |-> n[2], s |-> ""]

Abs(n) == IF n < 0 THEN 0 - n ELSE n

Sign(n) == IF n < 0 THEN 0 - 1 ELSE IF n = 0 THEN 0 ELSE 1

NumDigits(n) == Len(NatStr(Abs(n)))

RECURSIVE Pow10(_)
Pow10(k) == IF k <= 0 THEN 1 ELSE 10 * Pow10(k - 1)

Min2(a, b) == IF a < b THEN a ELSE b

\* a < b for two positive normalised decimals <<m, e>>.
PosLess(a, b) ==
  LET oa == NumDigits(a[1]) + a[2]
      ob == NumDigits(b[1]) + b[2]
      e0 == Min2(a[2], b[2])
  IN  IF oa # ob THEN oa < ob
      ELSE a[1] * Pow10(a[2] - e0) < b[1] * Pow10(b[2] - e0)

\* x < y for two numbers (float or int values).
NumLess(x, y) ==
  LET a == NormME(x.m, x.e)
      b == NormME(y.m, y.e)
      sa == Sign(a[1])
      sb == Sign(b[1])
  IN  IF sa # sb THEN sa < sb
      ELSE IF sa = 0 THEN FALSE
      ELSE IF sa = 1 THEN PosLess(a, b)
      ELSE PosLess(<<Abs(b[1]), b[2]>>, <<Abs(a[1]), a[2]>>)

(***************************************************************************)
(* Number parsing and formatting.                                          *)
(***************************************************************************)
Result(err, v) == [err |-> err, v |-> v]

\* float(text): surrounding blanks stripped, then
\*   [sign] (digits [. [digits]] | . digits) [(e|E) [sign] digits].
ParseFloat(text) ==
  LET t == Strip(text)
      n == Len(t)
      signed == n >= 1 /\ Char(t, 1) \in {"+", "-"}
      neg == n >= 1 /\ Char(t, 1) = "-"
      p0 == IF signed THEN 2 ELSE 1
      p1 == DigitsEnd(t, p0)
      hasDot == p1 <= n /\ Char(t, p1) = "."
      p2 == IF hasDot THEN DigitsEnd(t, p1 + 1) ELSE p1
      intS == SubSeq(t, p0, p1 - 1)
      fracS == IF hasDot THEN SubSeq(t, p1 + 1, p2 - 1) ELSE ""
      hasExp == p2 <= n /\ Char(t, p2) \in {"e", "E"}
      expSigned == hasExp /\ p2 + 1 <= n /\ Char(t, p2 + 1) \in {"+", "-"}
      expNeg == expSigned /\ Char(t, p2 + 1) = "-"
      p3 == IF expSigned THEN p2 + 2 ELSE p2 + 1
      p4 == IF hasExp THEN DigitsEnd(t, p3) ELSE p2
      expS == IF hasExp THEN SubSeq(t, p3, p4 - 1) ELSE ""
      valid == /\ intS # "" \/ fracS # ""
               /\ hasExp => expS # ""
               /\ p4 = n + 1
      frac == RStripZeros(fracS)
      mant == NatOf(intS \o frac)
      ex == (IF expNeg THEN 0 - NatOf(expS) ELSE NatOf(expS)) - Len(frac)
  IN  IF valid
      THEN Result("", FloatV(IF neg THEN 0 - mant ELSE mant, ex))
      ELSE Result("ParseError", NoValue)

\* int(text): surrounding blanks stripped, then [sign] digits.
ParseInt(text) ==
  LET t == Strip(text)
      n == Len(t)
      signed == n >= 1 /\ Char(t, 1) \in {"+", "-"}
      neg == n >= 1 /\ Char(t, 1) = "-"
      p0 == IF signed THEN 2 ELSE 1
      p1 == DigitsEnd(t, p0)
      valid == p1 > p0 /\ p1 = n + 1
      k == NatOf(SubSeq(t, p0, n))
  IN  IF valid THEN Result("", IntV(IF neg THEN 0 - k ELSE k))
      ELSE Result("ParseError", NoValue)

\* The shortest positional literal of a decimal, with at least one digit on
\* each side of the point: 150.0, 1.2, 0.001, -1.2.
FormatFloat(v) ==
  LET d == NormME(v.m, v.e)
      ds == NatStr(Abs(d[1]))
      k == 0 - d[2]
      sgn == IF d[1] < 0 THEN "-" ELSE ""
  IN  IF d[2] >= 0 THEN sgn \o ds \o Zeros(d[2]) \o ".0"
      ELSE IF Len(ds) > k
      THEN sgn \o SubSeq(ds, 1, Len(ds) - k) \o "."
               \o SubSeq(ds, Len(ds) - k + 1, Len(ds))
      ELSE sgn \o "0." \o Zeros(k - Len(ds)) \o ds

FormatInt(v) == (IF v.m < 0 THEN "-" ELSE "") \o NatStr(Abs(v.m))

(***************************************************************************)
(* Value types (slave.types): Boolean, Float, Integer, Mapping, Set.       *)
(* A type is a record of one shape; the fields a kind does not use hold    *)
(* defaults.                                                               *)
(***************************************************************************)
NoMap == [k \in {} |-> ""]

TypeRec(kind, hasMin, min, hasMax, max, map, set) ==
  [kind |-> kind, hasMin |-> hasMin, min |-> min, hasMax |-> hasMax,
   max |-> max, map |-> map, set |-> set]

Boolean == TypeRec("Boolean", FALSE, NoValue, FALSE, NoValue, NoMap, {})

\* Float(min=lo, max=hi), Float(min=lo) and the bare Float.
Float(lo, hi) == TypeRec("Float", TRUE, lo, TRUE, hi, NoMap, {})
FloatMin(lo) == TypeRec("Float", TRUE, lo, FALSE, NoValue, NoMap, {})
FloatAny == TypeRec("Float", FALSE, NoValue, FALSE, NoValue, NoMap, {})

Integer(lo, hi) == TypeRec("Integer", TRUE, lo, TRUE, hi, NoMap, {})

Mapping(dict) == TypeRec("Mapping", FALSE, NoValue, FALSE, NoValue, dict, {})

Set(members) == TypeRec("Set", FALSE, NoValue, FALSE, NoValue, NoMap, members)

InRange(type, v) ==
  /\ type.hasMin => ~NumLess(v, type.min)
  /\ type.hasMax => ~NumLess(type.max, v)

\* encode(value) -> text: the constraint is checked first, then the value is
\* formatted.
Encode(type, v) ==
  CASE type.kind = "Boolean" ->
         Result("", IF v.b THEN "1" ELSE "0")
    [] type.kind = "Float" ->
         IF InRange(type, v) THEN Result("", FormatFloat(v))
         ELSE Result("RangeError", "")
    [] type.kind = "Integer" ->
         IF InRange(type, v) THEN Result("", FormatInt(v))
         ELSE Result("RangeError", "")
    [] type.kind = "Mapping" ->
         IF v.s \in DOMAIN type.map THEN Result("", type.map[v.s])
         ELSE Result("UnknownSymbolError", "")
    [] type.kind = "Set" ->
         IF v.s \in type.set THEN Result("", v.s)
         ELSE Result("InvalidValueError", "")

\* decode(text) -> value.
Decode(type, text) ==
  CASE type.kind = "Boolean" ->
         IF text = "1" THEN Result("", BoolV(TRUE))
         ELSE IF text = "0" THEN Result("", BoolV(FALSE))
         ELSE Result("ParseError", NoValue)
    [] type.kind = "Float" -> ParseFloat(text)
    [] type.kind = "Integer" -> ParseInt(text)
    [] type.kind = "Mapping" ->
         LET keys == {k \in DOMAIN type.map : type.map[k] = text}
         IN  IF keys # {} THEN Result("", SymV(CHOOSE k \in keys : TRUE))
             ELSE Result("UnknownTokenError", NoValue)
    [] type.kind = "Set" ->
         IF text \in type.set THEN Result("", SymV(text))
         ELSE Result("InvalidValueError", NoValue)

(***************************************************************************)
(* Command descriptors (slave.core.Command): an optional query phrase, an  *)
(* optional write phrase and one value type.  An absent phrase is <<>>, a  *)
(* present one <<phrase>>.                                                 *)
(***************************************************************************)
\* Command(query, write, type)
Command(query, write, type) ==
  [query |-> <<query>>, write |-> <<write>>, type |-> type]

\* Command((query, type)): query only.
QueryCommand(query, type) ==
  [query |-> <<query>>, write |-> <<>>, type |-> type]

(***************************************************************************)
(* The command catalogue of k2182.py.                                      *)
(***************************************************************************)
Initiate_continuous_mode == Command(":INIT:CONT?", ":INIT:CONT", Boolean)

\* Output_gain with the query phrase missing its question mark.
Output_gain_NoQuestionMark ==
  Command("OUTP:GAIN", "OUTP:GAIN", Float(FloatV(0 - 100, 6), FloatV(100, 6)))

Output_gain ==
  Command("OUTP:GAIN?", "OUTP:GAIN", Float(FloatV(0 - 100, 6), FloatV(100, 6)))

Output_offset ==
  Command("OUTP:OFFS?", "OUTP:OFFS", Float(FloatV(0 - 12, 0 - 1), FloatV(12, 0 - 1)))

Output_relative == Command("OUTP:REL?", "OUTP:REL", Boolean)

Output_state == Command("OUTP:STAT?", "OUTP:STAT", Boolean)

\* SenseFunctionMap with the token of 'voltage' pasted for 'temperature'.
SenseFunctionMap_SameToken ==
  ("voltage" :> "\"VOLT:DC\"") @@ ("temperature" :> "\"VOLT:DC\"")

SenseFunctionMap ==
  ("voltage" :> "\"VOLT:DC\"") @@ ("temperature" :> "\"TEMP\"")

Sense_function == Command(":SENS:FUNC?", ":SENS:FUNC", Mapping(SenseFunctionMap))

Trigger_auto_delay == Command(":TRIG:DEL:AUTO?", ":TRIG:DEL:AUTO", Boolean)

Trigger_count == Command(":TRIG:COUN?", ":TRIG:COUN", FloatMin(FloatV(0, 0)))

Trigger_delay ==
  Command(":TRIG:DEL?", ":TRIG:DEL", Float(FloatV(0, 0), FloatV(999999999, 0 - 3)))

\* TriggerSourceMap with a mistyped wire token for 'timer'.
TriggerSourceMap_WrongToken ==
  ("immediate" :> "IMM") @@ ("timer" :> "TIME") @@ ("manual" :> "MAN")
    @@ ("bus" :> "BUS") @@ ("external" :> "EXT")

TriggerSourceMap ==
  ("immediate" :> "IMM") @@ ("timer" :> "TIM") @@ ("manual" :> "MAN")
    @@ ("bus" :> "BUS") @@ ("external" :> "EXT")

Trigger_source == Command(":TRIG:SOUR?", ":TRIG:SOUR", Mapping(TriggerSourceMap))

\* Trigger_timer with the phrases of Trigger_delay pasted.
Trigger_timer_DelayPhrases ==
  Command(":TRIG:DEL?", ":TRIG:DEL", Float(FloatV(0, 0), FloatV(999999999, 0 - 3)))

Trigger_timer ==
  Command(":TRIG:TIM?", ":TRIG:TIM", Float(FloatV(0, 0), FloatV(999999999, 0 - 3)))

Unit_temperature == Command(":UNIT:TEMP?", ":UNIT:TEMP", Set({"C", "F", "K"}))

\* K2182_sample_count with a mistyped upper bound.
K2182_sample_count_WideMax ==
  Command(":SAMP:COUN?", ":SAMP:COUN", Integer(IntV(1), IntV(10240)))

K2182_sample_count ==
  Command(":SAMP:COUN?", ":SAMP:COUN", Integer(IntV(1), IntV(1024)))

K2182_temperature == QueryCommand(":MEAS:TEMP?", FloatAny)

\* K2182_voltage declared as a read/write command.
K2182_voltage_Writable == Command(":MEAS:VOLT?", ":MEAS:VOLT", FloatAny)

K2182_voltage == QueryCommand(":MEAS:VOLT?", FloatAny)

\* The attributes of the facade and of its command layers, by dotted name.
Attrs ==
  {"initiate.continuous_mode", "output.gain", "output.offset",
   "output.relative", "output.state", "sense.function",
   "triggering.auto_delay", "triggering.count", "triggering.delay",
   "triggering.source", "triggering.timer", "unit.temperature",
   "sample_count", "temperature", "voltage"}

Attr(a) ==
  CASE a = "initiate.continuous_mode" -> Initiate_continuous_mode
    [] a = "output.gain" -> Output_gain
    [] a = "output.offset" -> Output_offset
    [] a = "output.relative" -> Output_relative
    [] a = "output.state" -> Output_state
    [] a = "sense.function" -> Sense_function
    [] a = "triggering.auto_delay" -> Trigger_auto_delay
    [] a = "triggering.count" -> Trigger_count
    [] a = "triggering.delay" -> Trigger_delay
    [] a = "triggering.source" -> Trigger_source
    [] a = "triggering.timer" -> Trigger_timer
    [] a = "unit.temperature" -> Unit_temperature
    [] a = "sample_count" -> K2182_sample_count
    [] a = "temperature" -> K2182_temperature
    [] a = "voltage" -> K2182_voltage

\* The fixed phrases of the direct actions.
InitiatePhrase == ":INIT"
SignalPhrase == ":TRIG:SIGN"
AbortPhrase == ":ABOR"
\* fetch() asking with read()'s phrase.
FetchPhrase_Read == ":READ?"

FetchPhrase == ":FETC?"
ReadPhrase == ":READ?"

WriteActions == {"initiate", "signal", "abort"}
AskActions == {"fetch", "read"}

ActionPhrase(op) ==
  CASE op = "initiate" -> InitiatePhrase
    [] op = "signal" -> SignalPhrase
    [] op = "abort" -> AbortPhrase
    [] op = "fetch" -> FetchPhrase
    [] op = "read" -> ReadPhrase

(***************************************************************************)
(* The connection (external collaborator): write(text) and ask(text).      *)
(* Each call it receives is appended to log, with whether it raised        *)
(* TransportError instead of completing.                                   *)
(***************************************************************************)
Sent(kind, text, conn) == [kind |-> kind, text |-> text, raised |-> conn.fail]

\* What the connection does with one call: raise, or complete (an ask then
\* returns a response text).
Raise == [fail |-> TRUE, resp |-> ""]
Reply(text) == [fail |-> FALSE, resp |-> text]

(***************************************************************************)
(* The outcome of one invocation, as the caller sees it: the operation,    *)
(* the attribute and argument, the response received, the status ("ok" or  *)
(* the error raised), the value returned, and how many commands the        *)
(* invocation handed to the connection.                                    *)
(***************************************************************************)
Call(op, attr, arg, resp, status, value) ==
  [op |-> op, attr |-> attr, arg |-> arg, resp |-> resp, status |-> status,
   value |-> value, sent |-> 0]

NoCall == Call("none", "", NoValue, "", "ok", NoValue)

Status(err) == IF err = "" THEN "ok" ELSE err

\* The invocation returns or raises: its commands reached the connection in
\* order, and its outcome is what the caller holds.
Finish(call, cmds) ==
  /\ log' = log \o cmds
  /\ prev' = last
  /\ last' = [call EXCEPT !.sent = Len(cmds)]
  /\ nCalls' = nCalls + 1
  /\ nOk' = IF call.status = "ok" THEN nOk + 1 ELSE nOk

(***************************************************************************)
(* Attribute access: Command.read and Command.write, reached through the   *)
(* instrument's attribute dispatch.                                        *)
(***************************************************************************)
ReadAttr(a, conn) ==
  LET c == Attr(a)
      dec == Decode(c.type, conn.resp)
  IN  /\ nCalls < MaxCalls
      /\ IF c.query = <<>>
         THEN Finish(Call("get", a, NoValue, "", "UnsupportedOperationError",
                          NoValue), <<>>)
         ELSE IF conn.fail
         THEN Finish(Call("get", a, NoValue, "", "TransportError", NoValue),
                     <<Sent("ask", c.query[1], conn)>>)
         ELSE Finish(Call("get", a, NoValue, conn.resp, Status(dec.err), dec.v),
                     <<Sent("ask", c.query[1], conn)>>)

WriteAttr(a, v, conn) ==
  LET c == Attr(a)
      enc == Encode(c.type, v)
  IN  /\ nCalls < MaxCalls
      /\ IF c.write = <<>>
         THEN Finish(Call("set", a, v, "", "UnsupportedOperationError", NoValue),
                     <<>>)
         ELSE IF enc.err # ""
         THEN Finish(Call("set", a, v, "", enc.err, NoValue), <<>>)
         ELSE Finish(Call("set", a, v, "",
                          IF conn.fail THEN "TransportError" ELSE "ok", NoValue),
                     <<Sent("write", c.write[1] \o " " \o enc.v, conn)>>)

(***************************************************************************)
(* Direct actions: Initiate.__call__, Trigger.signal, K2182.abort,         *)
(* K2182.fetch, K2182.read.                                                *)
(***************************************************************************)
\* WriteAction that swallows the connection's error and returns normally.
WriteAction_Swallows(op, conn) ==
  /\ nCalls < MaxCalls
  /\ Finish(Call(op, "", NoValue, "", "ok", NoValue),
            <<Sent("write", ActionPhrase(op), conn)>>)

\* self.connection.write(phrase)
WriteAction(op, conn) ==
  /\ nCalls < MaxCalls
  /\ Finish(Call(op, "", NoValue, "",
                 IF conn.fail THEN "TransportError" ELSE "ok", NoValue),
            <<Sent("write", ActionPhrase(op), conn)>>)

\* AskAction that resets and initiates the trigger model itself before it
\* asks, as the docstring of read() describes the instrument doing.
AskAction_ThreeCommands(op, conn) ==
  LET r == ParseFloat(conn.resp)
  IN  /\ nCalls < MaxCalls
      /\ Finish(Call(op, "", NoValue, conn.resp,
                     IF conn.fail THEN "TransportError" ELSE Status(r.err),
                     IF conn.fail THEN NoValue ELSE r.v),
                <<Sent("write", AbortPhrase, Reply("")),
                  Sent("write", InitiatePhrase, Reply("")),
                  Sent("ask", ActionPhrase(op), conn)>>)

\* return float(self.connection.ask(phrase))
AskAction(op, conn) ==
  LET r == ParseFloat(conn.resp)
  IN  /\ nCalls < MaxCalls
      /\ IF conn.fail
         THEN Finish(Call(op, "", NoValue, "", "TransportError", NoValue),
                     <<Sent("ask", ActionPhrase(op), conn)>>)
         ELSE Finish(Call(op, "", NoValue, conn.resp, Status(r.err), r.v),
                     <<Sent("ask", ActionPhrase(op), conn)>>)

Initiate(conn) == WriteAction("initiate", conn)
Signal(conn) == WriteAction("signal", conn)
Abort(conn) == WriteAction("abort", conn)
Fetch(conn) == AskAction("fetch", conn)
Read(conn) == AskAction("read", conn)

(***************************************************************************)
(* Inputs of the state machine: the responses the instrument may give and  *)
(* the values a caller may write, per attribute.                           *)
(***************************************************************************)
FloatTexts == {"1.5E+02", "150.0", "abc"}

Responses(a) ==
  LET k == Attr(a).type.kind
  IN  CASE k = "Boolean" -> {"1", "0", "ON"}
        [] k = "Float" -> FloatTexts
        [] k = "Integer" -> {"1024", "1.5"}
        [] k = "Mapping" /\ a = "sense.function" -> {"\"VOLT:DC\"", "VOLT:DC"}
        [] k = "Mapping" /\ a = "triggering.source" ->
             {"IMM", "TIM", "MAN", "BUS", "EXT", "NET"}
        [] k = "Set" -> {"C", "K", "c"}

Values(a) ==
  CASE a = "output.gain" -> {FloatV(150, 0), FloatV(100000001, 0)}
    [] a = "output.offset" -> {FloatV(12, 0 - 1), FloatV(0 - 1201, 0 - 3)}
    [] a = "triggering.count" ->
         {FloatV(9999, 0), FloatV(10000, 0), FloatV(0 - 1, 0 - 3)}
    [] a \in {"triggering.delay", "triggering.timer"} ->
         {FloatV(999999999, 0 - 3), FloatV(1, 6)}
    [] a = "sample_count" -> {IntV(1024), IntV(0), IntV(2000)}
    [] a = "sense.function" -> {SymV("temperature"), SymV("current")}
    [] a = "triggering.source" ->
         {SymV("immediate"), SymV("timer"), SymV("manual"), SymV("bus"),
          SymV("external"), SymV("network")}
    [] a = "unit.temperature" -> {SymV("F"), SymV("c")}
    [] a \in {"temperature", "voltage"} -> {FloatV(1, 0)}
    [] OTHER -> {BoolV(TRUE), BoolV(FALSE)}

AskOutcomes(texts) == {Raise} \cup {Reply(t) : t \in texts}
WriteOutcomes == {Raise, Reply("")}

(***************************************************************************)
(* The driver as a state machine.                                          *)
(***************************************************************************)
Init ==
  /\ log = <<>>
  /\ last = NoCall
  /\ prev = NoCall
  /\ nCalls = 0
  /\ nOk = 0

Next ==
  \/ \E a \in Attrs : \E conn \in AskOutcomes(Responses(a)) : ReadAttr(a, conn)
  \/ \E a \in Attrs : \E v \in Values(a) : \E conn \in WriteOutcomes :
       WriteAttr(a, v, conn)
  \/ \E conn \in WriteOutcomes : Initiate(conn)
  \/ \E conn \in WriteOutcomes : Signal(conn)
  \/ \E conn \in WriteOutcomes : Abort(conn)
  \/ \E conn \in AskOutcomes(FloatTexts) : Fetch(conn)
  \/ \E conn \in AskOutcomes(FloatTexts) : Read(conn)

Spec == Init /\ [][Next]_vars

(***************************************************************************)
(* The value types on their own: an input (a native value or a wire text)  *)
(* is drawn for one attribute's type, then encoded and decoded back, or    *)
(* decoded and encoded back.  last holds the latest codec result, prev the *)
(* one before it.                                                          *)
(***************************************************************************)
CodecValues(a) ==
  LET k == Attr(a).type.kind
  IN  CASE k = "Boolean" -> {BoolV(TRUE), BoolV(FALSE)}
        [] k = "Integer" ->
             {IntV(0 - 1), IntV(0), IntV(1), IntV(512), IntV(1024), IntV(1025),
              IntV(2000)}
        [] k = "Float" ->
             {FloatV(0, 0), FloatV(0 - 1, 0 - 3), FloatV(1, 0 - 3),
              FloatV(12, 0 - 1), FloatV(0 - 12, 0 - 1), FloatV(1201, 0 - 3),
              FloatV(0 - 1201, 0 - 3), FloatV(150, 0), FloatV(9999, 0),
              FloatV(10000, 0), FloatV(999999999, 0 - 3), FloatV(1, 6),
              FloatV(100, 6), FloatV(0 - 100, 6), FloatV(100000001, 0),
              FloatV(0 - 100000001, 0)}
        [] k = "Mapping" ->
             {SymV(x) : x \in {"voltage", "temperature", "immediate", "timer",
                               "manual", "bus", "external", "network", "TIM"}}
        [] k = "Set" -> {SymV(x) : x \in {"C", "F", "K", "c", "f", "X", ""}}

CodecTexts(a) ==
  LET k == Attr(a).type.kind
  IN  CASE k = "Boolean" -> {"1", "0", "ON", "OFF", "", "2"}
        [] k = "Integer" -> {"1", "1024", "+5", " 7", "007", "2000", "1.5", ""}
        [] k = "Float" ->
             {"1.5E+02", "150.0", "150", "1.50e2", "-1.2", "+0.001", ".5",
              "1e9", "1E-3", "abc", "1.5E", ""}
        [] k = "Mapping" ->
             {"\"VOLT:DC\"", "\"TEMP\"", "VOLT:DC", "IMM", "TIM", "MAN", "BUS",
              "EXT", "imm", "timer", ""}
        [] k = "Set" -> {"C", "F", "K", "c", "k", "X", ""}

CodecInit ==
  /\ log = <<>>
  /\ prev = NoCall
  /\ nCalls = 0
  /\ nOk = 0
  /\ \E a \in Attrs :
       \/ \E v \in CodecValues(a) : last = Call("value", a, v, "", "ok", v)
       \/ \E t \in CodecTexts(a) : last = Call("text", a, NoValue, t, "ok", NoValue)

\* One codec application: its result replaces last.
CodecStep(call) ==
  /\ prev' = last
  /\ last' = call
  /\ nCalls' = nCalls + 1
  /\ UNCHANGED <<log, nOk>>

\* encode(value) of the value drawn.
EncodeValue ==
  LET enc == Encode(Attr(last.attr).type, last.arg)
  IN  /\ last.op = "value"
      /\ CodecStep(Call("encode", last.attr, last.arg, enc.v, Status(enc.err),
                        NoValue))

\* decode(text) of the text drawn.
DecodeText ==
  LET dec == Decode(Attr(last.attr).type, last.resp)
  IN  /\ last.op = "text"
      /\ CodecStep(Call("decode", last.attr, NoValue, last.resp,
                        Status(dec.err), dec.v))

\* decode of the text an accepted encode produced.
DecodeBack ==
  LET dec == Decode(Attr(last.attr).type, last.resp)
  IN  /\ last.op = "encode"
      /\ last.status = "ok"
      /\ CodecStep(Call("decode", last.attr, last.arg, last.resp,
                        Status(dec.err), dec.v))

\* encode of the value an accepted decode produced.
EncodeBack ==
  LET enc == Encode(Attr(last.attr).type, last.value)
  IN  /\ last.op = "decode"
      /\ last.status = "ok"
      /\ prev.op = "text"
      /\ CodecStep(Call("encode", last.attr, last.value, enc.v,
                        Status(enc.err), NoValue))

CodecNext == EncodeValue \/ DecodeText \/ DecodeBack \/ EncodeBack

CodecSpec == CodecInit /\ [][CodecNext]_vars

(***************************************************************************)
(* Helpers of the properties.                                              *)
(***************************************************************************)
\* The step is one invocation.
Invoked == nCalls' = nCalls + 1

LastCmd == log[Len(log)]

CodecErrors ==
  {"RangeError", "UnknownSymbolError", "InvalidValueError"}

SourceSymbols == {"immediate", "timer", "manual", "bus", "external"}

\* The wire text the instrument documentation gives for a trigger source.
SourceToken(sym) ==
  CASE sym = "immediate" -> "IMM"
    [] sym = "timer" -> "TIM"
    [] sym = "manual" -> "MAN"
    [] sym = "bus" -> "BUS"
    [] sym = "external" -> "EXT"

(***************************************************************************)
(* C1.  Validation precedes I/O on every attribute write: a write whose    *)
(* value the attribute's codec rejects leaves the sequence of commands the *)
(* connection received unchanged, whatever came before.  trigger.source    *)
(* set to a symbol outside {immediate, timer, manual, bus, external} fails *)
(* with UnknownSymbolError, sample_count set outside 1..1024 fails with    *)
(* RangeError.                                                             *)
(***************************************************************************)
C1_Step ==
  (Invoked /\ last'.op = "set") =>
    /\ last'.status \in CodecErrors => log' = log
    /\ (last'.attr = "triggering.source" /\ last'.arg.s \notin SourceSymbols) =>
         (last'.status = "UnknownSymbolError" /\ log' = log)
    /\ (last'.attr = "sample_count"
          /\ (last'.arg.m < 1 \/ last'.arg.m > 1024)) =>
         (last'.status = "RangeError" /\ log' = log)

\* C1: in every step, a write the codec rejects raises the codec's error and
\* leaves the commands received by the connection unchanged.
C1_ValidationPrecedesIO == [][C1_Step]_vars

\* sample_count = 2000 was rejected after an earlier command had been sent.
C1_Witness ==
  /\ last.op = "set"
  /\ last.attr = "sample_count"
  /\ last.arg = IntV(2000)
  /\ last.status = "RangeError"
  /\ Len(log) = 1
  /\ nCalls = 2

(***************************************************************************)
(* C2.  An accepted attribute write sends exactly one connection.write and *)
(* no ask; the text is the write phrase, a blank and the encoded value.    *)
(* trigger.source = immediate, timer, manual, bus, external sends          *)
(* ':TRIG:SOUR IMM', ':TRIG:SOUR TIM', ':TRIG:SOUR MAN', ':TRIG:SOUR BUS', *)
(* ':TRIG:SOUR EXT'.                                                       *)
(***************************************************************************)
C2_Step ==
  (Invoked /\ last'.op = "set" /\ last'.status = "ok") =>
    /\ Len(log') = Len(log) + 1
    /\ SubSeq(log', 1, Len(log)) = log
    /\ log'[Len(log')].kind = "write"
    /\ ~log'[Len(log')].raised
    /\ log'[Len(log')].text =
         Attr(last'.attr).write[1] \o " "
           \o Encode(Attr(last'.attr).type, last'.arg).v
    /\ last'.attr = "triggering.source" =>
         /\ last'.arg.s \in SourceSymbols
         /\ log'[Len(log')].text = ":TRIG:SOUR " \o SourceToken(last'.arg.s)

\* C2: in every step, an accepted write appends exactly one write command,
\* the write phrase, a blank and the encoded value.
C2_AcceptedWriteSendsOneWrite == [][C2_Step]_vars

\* trigger.source = "timer" was written and ':TRIG:SOUR TIM' was sent.
C2_Witness ==
  /\ last.op = "set"
  /\ last.attr = "triggering.source"
  /\ last.arg = SymV("timer")
  /\ last.status = "ok"
  /\ Len(log) >= 1
  /\ LastCmd = [kind |-> "write", text |-> ":TRIG:SOUR TIM", raised |-> FALSE]

(***************************************************************************)
(* C3.  Reading an attribute sends exactly its query phrase through        *)
(* connection.ask, and no write, and returns the decode of the response,   *)
(* a decode failure propagating.  output.gain sends 'OUTP:GAIN?' and on    *)
(* "1.5E+02" returns 150.0; trigger.source sends ':TRIG:SOUR?' and returns *)
(* the symbol whose wire token is the response, failing with               *)
(* UnknownTokenError when the response is none of IMM, TIM, MAN, BUS, EXT. *)
(***************************************************************************)
C3_Step ==
  (Invoked /\ last'.op = "get") =>
    LET cmd == log'[Len(log')]
        dec == Decode(Attr(last'.attr).type, last'.resp)
    IN  /\ Len(log') = Len(log) + 1
        /\ SubSeq(log', 1, Len(log)) = log
        /\ cmd.kind = "ask"
        /\ cmd.text = Attr(last'.attr).query[1]
        /\ last'.attr = "output.gain" => cmd.text = "OUTP:GAIN?"
        /\ last'.attr = "triggering.source" => cmd.text = ":TRIG:SOUR?"
        /\ ~cmd.raised =>
             /\ last'.status = Status(dec.err)
             /\ last'.value = dec.v
             /\ (last'.attr = "output.gain" /\ last'.resp = "1.5E+02") =>
                  (last'.status = "ok" /\ last'.value = FloatV(150, 0))
             /\ last'.attr = "triggering.source" =>
                  IF \E sym \in SourceSymbols : SourceToken(sym) = last'.resp
                  THEN /\ last'.status = "ok"
                       /\ last'.value.t = "sym"
                       /\ last'.value.s \in SourceSymbols
                       /\ SourceToken(last'.value.s) = last'.resp
                  ELSE last'.status = "UnknownTokenError"

\* C3: in every step, a read appends exactly one ask of the query phrase and
\* returns the decode of the response, or raises the decode's error.
C3_ReadAsksAndDecodes == [][C3_Step]_vars

\* output.gain was read: 'OUTP:GAIN?' was asked, "1.5E+02" came back and
\* 150.0 was returned.
C3_Witness ==
  /\ last.op = "get"
  /\ last.attr = "output.gain"
  /\ last.resp = "1.5E+02"
  /\ last.status = "ok"
  /\ last.value = FloatV(150, 0)
  /\ Len(log) >= 1
  /\ LastCmd = [kind |-> "ask", text |-> "OUTP:GAIN?", raised |-> FALSE]

(***************************************************************************)
(* C4.  Exactly one connection round trip per invocation, no retries and   *)
(* no caching: after n successful invocations (attribute reads, attribute  *)
(* writes, direct actions) the connection has received exactly n commands, *)
(* in invocation order; two consecutive reads of one attribute issue two   *)
(* asks, and each read returns the decode of its own response, whatever    *)
(* was read or written before.                                             *)
(***************************************************************************)
\* The one command an invocation that reached the connection hands to it.
CommandOf(call) ==
  CASE call.op = "get" -> [kind |-> "ask", text |-> Attr(call.attr).query[1]]
    [] call.op = "set" ->
         [kind |-> "write",
          text |-> Attr(call.attr).write[1] \o " "
                     \o Encode(Attr(call.attr).type, call.arg).v]
    [] call.op \in WriteActions ->
         [kind |-> "write", text |-> ActionPhrase(call.op)]
    [] call.op \in AskActions ->
         [kind |-> "ask", text |-> ActionPhrase(call.op)]

IsCommandOf(cmd, call) ==
  cmd.kind = CommandOf(call).kind /\ cmd.text = CommandOf(call).text

\* C4: in every state, n successful invocations have put n commands on the
\* connection, in invocation order, and a read returns the decode of its own
\* response.
C4_OneRoundTripNoCache ==
  /\ nOk = nCalls => Len(log) = nCalls
  /\ last.status = "ok" /\ last.op # "none" => last.sent = 1
  /\ prev.status = "ok" /\ prev.op # "none" => prev.sent = 1
  /\ last.sent = 1 => IsCommandOf(log[Len(log)], last)
  /\ (last.sent = 1 /\ prev.sent = 1) =>
       IsCommandOf(log[Len(log) - 1], prev)
  /\ (last.op = "get" /\ last.status = "ok") =>
       last.value = Decode(Attr(last.attr).type, last.resp).v
  /\ (last.op = "get" /\ prev.op = "get" /\ last.attr = prev.attr) =>
       /\ Len(log) >= 2
       /\ log[Len(log)].kind = "ask"
       /\ log[Len(log) - 1].kind = "ask"
       /\ log[Len(log)].text = log[Len(log) - 1].text

\* output.state was read twice in a row: two asks were issued, and the
\* second read returned its own response, which differs from the first.
C4_Witness ==
  /\ nCalls = 2
  /\ nOk = 2
  /\ prev.op = "get" /\ prev.attr = "output.state"
  /\ last.op = "get" /\ last.attr = "output.state"
  /\ prev.value = BoolV(TRUE)
  /\ last.value = BoolV(FALSE)
  /\ Len(log) = 2
  /\ log[1].text = "OUTP:STAT?" /\ log[2].text = "OUTP:STAT?"

(***************************************************************************)
(* C6.  A descriptor with no write phrase fails with                       *)
(* UnsupportedOperationError when written, and one with no query phrase    *)
(* when read.  Writing any value to the query-only attributes temperature  *)
(* (':MEAS:TEMP?') and voltage (':MEAS:VOLT?') fails so and sends nothing; *)
(* reading them issues exactly one ask of the query phrase.                *)
(***************************************************************************)
C6_Step ==
  Invoked =>
    /\ (last'.op = "set" /\ last'.attr \in {"temperature", "voltage"}) =>
         (last'.status = "UnsupportedOperationError" /\ log' = log)
    /\ (last'.op = "set" /\ Attr(last'.attr).write = <<>>) =>
         (last'.status = "UnsupportedOperationError" /\ log' = log)
    /\ (last'.op = "get" /\ Attr(last'.attr).query = <<>>) =>
         (last'.status = "UnsupportedOperationError" /\ log' = log)
    /\ (last'.op = "get" /\ last'.attr \in {"temperature", "voltage"}) =>
         /\ Len(log') = Len(log) + 1
         /\ SubSeq(log', 1, Len(log)) = log
         /\ log'[Len(log')].kind = "ask"
         /\ log'[Len(log')].text =
              (IF last'.attr = "temperature" THEN ":MEAS:TEMP?"
               ELSE ":MEAS:VOLT?")

\* C6: in every step, a write to temperature or voltage raises
\* UnsupportedOperationError and sends nothing; a read of them sends one ask.
C6_QueryOnlyRejectsWrite == [][C6_Step]_vars

\* voltage was read (one ask), then written: the write failed and the
\* connection still holds the one ask.
C6_Witness ==
  /\ prev.op = "get" /\ prev.attr = "voltage" /\ prev.status = "ok"
  /\ last.op = "set" /\ last.attr = "voltage"
  /\ last.status = "UnsupportedOperationError"
  /\ Len(log) = 1
  /\ log[1].kind = "ask" /\ log[1].text = ":MEAS:VOLT?"

(***************************************************************************)
(* C7.  A TransportError raised by connection.write or connection.ask      *)
(* during an attribute read, an attribute write or a direct action (read,  *)
(* fetch, abort, initiate, signal) reaches the caller unchanged: it is not *)
(* caught, suppressed, turned into a return value or retried, so the       *)
(* connection sees exactly one attempt and the operation fully succeeds or *)
(* fully fails.                                                            *)
(***************************************************************************)
C7_Step ==
  Invoked =>
    LET new == SubSeq(log', Len(log) + 1, Len(log'))
        raised == \E i \in 1..Len(new) : new[i].raised
    IN  /\ SubSeq(log', 1, Len(log)) = log
        /\ raised =>
             /\ last'.status = "TransportError"
             /\ last'.value = NoValue
             /\ Len(new) = 1
        /\ last'.status = "TransportError" => raised
        /\ last'.status = "ok" => (Len(new) = 1 /\ ~raised)

\* C7: in every step, a connection call that raises ends the invocation with
\* TransportError after that one attempt, and no successful invocation hides
\* a raise.
C7_TransportErrorPropagates == [][C7_Step]_vars

\* fetch() raised TransportError after the connection refused its one ask.
C7_Witness ==
  /\ last.op = "fetch"
  /\ last.status = "TransportError"
  /\ last.sent = 1
  /\ Len(log) >= 1
  /\ LastCmd = [kind |-> "ask", text |-> ":FETC?", raised |-> TRUE]

(***************************************************************************)
(* C8.  Every direct action is a single fixed-phrase round trip that does  *)
(* not depend on any earlier operation: abort() sends one write ':ABOR',   *)
(* triggering.signal() one write ':TRIG:SIGN', initiate() one write        *)
(* ':INIT', with no ask and no argument; read() sends one ask ':READ?' and *)
(* fetch() one ask ':FETC?', with no write, and each returns the reply     *)
(* parsed as a float.  fetch() sends nothing that starts a measurement and *)
(* read() no separate abort or initiate.                                   *)
(***************************************************************************)
C8_Phrase(op) ==
  CASE op = "abort" -> ":ABOR"
    [] op = "signal" -> ":TRIG:SIGN"
    [] op = "initiate" -> ":INIT"
    [] op = "read" -> ":READ?"
    [] op = "fetch" -> ":FETC?"

C8_Step ==
  (Invoked /\ last'.op \in {"abort", "signal", "initiate", "read", "fetch"}) =>
    LET cmd == log'[Len(log')]
    IN  /\ Len(log') = Len(log) + 1
        /\ SubSeq(log', 1, Len(log)) = log
        /\ cmd.text = C8_Phrase(last'.op)
        /\ cmd.kind = (IF last'.op \in {"read", "fetch"} THEN "ask" ELSE "write")
        /\ (last'.op \in {"read", "fetch"} /\ ~cmd.raised) =>
             /\ last'.status = Status(ParseFloat(last'.resp).err)
             /\ last'.value = ParseFloat(last'.resp).v
             /\ last'.resp = "1.5E+02" =>
                  (last'.status = "ok" /\ last'.value = FloatV(150, 0))
             /\ last'.resp = "abc" => last'.status = "ParseError"

\* C8: in every step, a direct action appends exactly its one fixed phrase,
\* whatever came before; read and fetch return the reply parsed as a float.
C8_ActionsAreFixedPhrases == [][C8_Step]_vars

\* fetch() right after abort(): the connection holds ':ABOR' and ':FETC?'
\* and nothing else, and fetch returned the reply as a float.
C8_Witness ==
  /\ prev.op = "abort"
  /\ last.op = "fetch"
  /\ last.status = "ok"
  /\ last.value = FloatV(150, 0)
  /\ log = <<[kind |-> "write", text |-> ":ABOR", raised |-> FALSE],
             [kind |-> "ask", text |-> ":FETC?", raised |-> FALSE]>>

(***************************************************************************)
(* C9.  The trigger count attribute (triggering.count, ':TRIG:COUN') has a *)
(* minimum of 0 and a maximum of 9999: writing a value below 0 or a finite *)
(* value above 9999 fails with RangeError and sends no command, as for the *)
(* other bounded floats (output.gain in [-100e6, 100e6], output.offset in  *)
(* [-1.2, 1.2], triggering.delay and triggering.timer in [0, 999999.999],  *)
(* bounds inclusive).                                                      *)
(***************************************************************************)
C9_Outside(v, lo, hi) == NumLess(v, lo) \/ NumLess(hi, v)

C9_OutOfRange(a, v) ==
  CASE a = "triggering.count" -> C9_Outside(v, FloatV(0, 0), FloatV(9999, 0))
    [] a = "output.gain" -> C9_Outside(v, FloatV(0 - 100, 6), FloatV(100, 6))
    [] a = "output.offset" ->
         C9_Outside(v, FloatV(0 - 12, 0 - 1), FloatV(12, 0 - 1))
    [] a \in {"triggering.delay", "triggering.timer"} ->
         C9_Outside(v, FloatV(0, 0), FloatV(999999999, 0 - 3))
    [] OTHER -> FALSE

C9_Step ==
  (Invoked /\ last'.op = "set" /\ C9_OutOfRange(last'.attr, last'.arg)) =>
    (last'.status = "RangeError" /\ log' = log)

\* C9: in every step, a write of an out-of-range value to triggering.count
\* (outside [0, 9999]) or to another bounded float raises RangeError and
\* sends nothing.
C9_CountIsBounded == [][C9_Step]_vars

(***************************************************************************)
(* C10.  The command catalogue is unambiguous.  Every descriptor has at    *)
(* least one phrase; the query phrase of a read/write descriptor is its    *)
(* write phrase followed by '?'; no two descriptors share a query phrase   *)
(* or a write phrase; no attribute phrase is an action phrase; within each *)
(* mapping the wire tokens are pairwise distinct.  Hence every entry of    *)
(* the command log identifies the one attribute access or action that      *)
(* issued it.                                                              *)
(***************************************************************************)
Actions == WriteActions \cup AskActions

\* The attribute accesses and actions that can have issued a command.
Issuers(cmd) ==
  {<<"get", a>> : a \in {x \in Attrs :
       /\ cmd.kind = "ask"
       /\ Attr(x).query # <<>>
       /\ cmd.text = Attr(x).query[1]}}
  \cup
  {<<"set", a>> : a \in {x \in Attrs :
       /\ cmd.kind = "write"
       /\ Attr(x).write # <<>>
       /\ StartsWith(cmd.text, Attr(x).write[1] \o " ")}}
  \cup
  {<<op, "">> : op \in {x \in Actions :
       /\ cmd.kind = (IF x \in AskActions THEN "ask" ELSE "write")
       /\ cmd.text = ActionPhrase(x)}}

Phrases(a) ==
  (IF Attr(a).query # <<>> THEN {Attr(a).query[1]} ELSE {})
    \cup (IF Attr(a).write # <<>> THEN {Attr(a).write[1]} ELSE {})

\* The catalogue itself, which no operation changes.
C10_Catalogue ==
  /\ \A a \in Attrs : Phrases(a) # {}
  /\ \A a \in Attrs :
       (Attr(a).query # <<>> /\ Attr(a).write # <<>>) =>
         Attr(a).query[1] = Attr(a).write[1] \o "?"
  /\ \A a, b \in Attrs :
       a # b =>
         /\ (Attr(a).query # <<>> /\ Attr(b).query # <<>>) =>
              Attr(a).query[1] # Attr(b).query[1]
         /\ (Attr(a).write # <<>> /\ Attr(b).write # <<>>) =>
              Attr(a).write[1] # Attr(b).write[1]
  /\ \A a \in Attrs : \A op \in Actions : ActionPhrase(op) \notin Phrases(a)
  /\ \A a \in Attrs :
       LET map == Attr(a).type.map
       IN  \A j, k \in DOMAIN map : j # k => map[j] # map[k]

\* C10: the catalogue is unambiguous and every logged command has exactly one
\* issuer.  The catalogue is fixed at construction, so it is stated of the initial
\* state; the log is constrained in every state.
C10_CatalogueUnambiguous ==
  /\ Len(log) = 0 => C10_Catalogue
  /\ \A i \in 1..Len(log) : Cardinality(Issuers(log[i])) = 1

\* initiate.continuous_mode was written and initiate() called: ':INIT:CONT 1'
\* and ':INIT' are in the log, each with its one issuer.
C10_Witness ==
  /\ Len(log) = 2
  /\ log[1].text = ":INIT:CONT 1"
  /\ log[2].text = ":INIT"
  /\ Issuers(log[1]) = {<<"set", "initiate.continuous_mode">>}
  /\ Issuers(log[2]) = {<<"initiate", "">>}

(***************************************************************************)
(* C5.  Round trips of the value types the driver declares.  As the claim  *)
(* states it: decode(encode(v)) = v for every value v the codec accepts    *)
(* and encode(decode(t)) = t for every wire token t it accepts; for the    *)
(* mappings of sense.function and trigger.source decode of a text that is  *)
(* no wire token fails with UnknownTokenError; for unit.temperature's set  *)
(* {C, F, K} encode and decode are the identity on members and fail with   *)
(* InvalidValueError on non-members.                                       *)
(***************************************************************************)
LastKind == Attr(last.attr).type.kind

\* decode(encode(v)) = v for every accepted v.
C5_DecodeEncode ==
  (last.op = "decode" /\ prev.op = "encode") =>
    (last.status = "ok" /\ last.value = last.arg)

\* encode(decode(t)) = t for every accepted t of the kinds given.
C5_EncodeDecode(kinds) ==
  (last.op = "encode" /\ prev.op = "decode" /\ LastKind \in kinds) =>
    (last.status = "ok" /\ last.resp = prev.resp)

C5_MappingTokens(a) ==
  IF a = "sense.function" THEN {"\"VOLT:DC\"", "\"TEMP\""}
  ELSE {"IMM", "TIM", "MAN", "BUS", "EXT"}

C5_Particulars ==
  /\ (last.op = "decode" /\ prev.op = "text" /\ LastKind = "Mapping") =>
       IF last.resp \in C5_MappingTokens(last.attr)
       THEN last.status = "ok"
       ELSE last.status = "UnknownTokenError"
  /\ (last.op = "decode" /\ prev.op = "text" /\ LastKind = "Set") =>
       IF last.resp \in {"C", "F", "K"}
       THEN last.status = "ok" /\ last.value = SymV(last.resp)
       ELSE last.status = "InvalidValueError"
  /\ (last.op = "encode" /\ prev.op = "value" /\ LastKind = "Set") =>
       IF last.arg.s \in {"C", "F", "K"}
       THEN last.status = "ok" /\ last.resp = last.arg.s
       ELSE last.status = "InvalidValueError"
  /\ (last.op = "encode" /\ prev.op = "value" /\ LastKind = "Boolean") =>
       (last.status = "ok" /\ last.resp = (IF last.arg.b THEN "1" ELSE "0"))

\* C5 as stated: both round trips hold for every value type.
C5_RoundTripsAsStated ==
  /\ C5_DecodeEncode
  /\ C5_EncodeDecode({"Boolean", "Float", "Integer", "Mapping", "Set"})
  /\ C5_Particulars

\* C5, amended: decode(encode(v)) = v for every value type, and
\* encode(decode(t)) = t for Boolean, Mapping and Set; a Float or Integer
\* text is re-encoded to a normalised literal (or refused when the number
\* it denotes is out of range), which decodes to the same number.
C5_RoundTrips ==
  /\ C5_DecodeEncode
  /\ C5_EncodeDecode({"Boolean", "Mapping", "Set"})
  /\ C5_Particulars

\* sense.function: 'temperature' was encoded to "TEMP" (quoted) and decoded
\* back to 'temperature'.
C5_Witness ==
  /\ last.op = "decode"
  /\ prev.op = "encode"
  /\ last.attr = "sense.function"
  /\ last.arg = SymV("temperature")
  /\ last.resp = "\"TEMP\""
  /\ last.value = SymV("temperature")

====
